---- MODULE Spec2Model ----
(***************************************************************************)
(* Model of GlobalMapRefinement (bs_models/global_mapping): the submap     *)
(* refinement stage, the submap alignment stage and the pose-graph         *)
(* optimization stage with its loop-closure sweep.                         *)
(*                                                                         *)
(* Rigid transforms (Eigen::Matrix4d) are abstracted by the elements of    *)
(* the dihedral group of order 2*PoseMod, a small non-commutative group:   *)
(* <<r, f>> stands for rot^r . flip^f.  The collaborators (matcher, scan   *)
(* registration, candidate search, loop-closure refinement, solver) are    *)
(* opaque: their results are drawn from small sets.                        *)
(***************************************************************************)
EXTENDS Integers, Sequences, FiniteSets, Bags, TLC

(* ------------------------------ bounds --------------------------------- *)
MaxSubmaps == 5
MaxPipelineSubmaps == 2
MaxScans == 2
MaxCandidates == 2
MaxSkipFirstN == 2
MaxCalls == 2
PoseMod == 3

(* --------------------------- program constants ------------------------- *)
\* width of the uint16_t loop counters of the refinement and alignment loops
Uint16Modulus == 65536

VARIABLES
  submaps,                  \* global_map_->GetSubmaps(): index -> submap
  untracked_submaps,        \* number of further submaps of the store, after those
                            \* of `submaps`: scan-less, their poses not represented
  summary,                  \* summary_: the two stamp -> RegistrationResult maps
  pgo_skip_first_n_submaps, \* pgo_skip_first_n_submaps_
  pc,                       \* position of the caller / of the running stage
  stage,                    \* the stage function entered last
  ret,                      \* what the last finished stage function returned
  calls,                    \* number of stage functions entered so far
  i,                        \* uint16_t i of RunSubmapRefinement / RunSubmapAlignment
  match_failed,             \* some Match() of the current alignment run returned false
  graph,                    \* the HashGraph of RunPoseGraphOptimization
  query_index,              \* int query_index of the sweep
  matched_indices,          \* std::vector<int> matched_indices of the current query
  ignore_last_n_submaps,    \* int ignore_last_n_submaps of the current query
  cand,                     \* int i of the candidate loop
  transaction,              \* the transaction accumulated for the current query
  attempted,                \* candidate position -> results.successful, for the
                            \* candidates handed to RunRefinement (current query)
  log,                      \* graph and store calls made since the last candidate search
  refine_graph,             \* scans whose variables the graph of the last RefineSubmap holds
  output_path_invalid,      \* the output_path of the running refinement or alignment
                            \* call is non-empty and does not exist
  config,                   \* the configuration file handed to the constructor
  params,                   \* params_
  summary_json              \* summary.json as SaveResults wrote it

vars == <<submaps, untracked_submaps, summary, pgo_skip_first_n_submaps, pc, stage, ret, calls, i,
          match_failed, graph, query_index, matched_indices,
          ignore_last_n_submaps, cand, transaction, attempted, log,
          refine_graph, output_path_invalid, config, params, summary_json>>

pgo_vars == <<graph, query_index, matched_indices, ignore_last_n_submaps, cand,
              transaction, attempted, log>>

store_vars == <<submaps, untracked_submaps, summary, pgo_skip_first_n_submaps>>

caller_vars == <<config, params, summary_json>>

(* ------------------------------ transforms ----------------------------- *)
Pose == (0 .. PoseMod - 1) \X {0, 1}

Identity == <<0, 0>>

\* Eigen::Matrix4d operator*
Compose(a, b) ==
  << (a[1] + (IF a[2] = 0 THEN b[1] ELSE PoseMod - b[1])) % PoseMod,
     (a[2] + b[2]) % 2 >>

\* beam::InvertTransform
InvertTransform(a) ==
  IF a[2] = 0 THEN << (PoseMod - a[1]) % PoseMod, 0 >> ELSE a

\* RegistrationResult(Ti, Tf): dR and dt are the magnitudes of the rotation and
\* of the translation of T_DIFF = Ti^-1 * Tf; a transform and its inverse have
\* the same magnitudes.
RegistrationResult(Ti, Tf) ==
  LET T_DIFF == Compose(InvertTransform(Ti), Tf)
  IN  {T_DIFF, InvertTransform(T_DIFF)}

\* an insertion that overwrites the entry of a key already present
Emplace_Overwrites(m, k, v) ==
  [x \in DOMAIN m \cup {k} |-> IF x = k THEN v ELSE m[x]]

\* std::map::emplace: inserts only when the key is absent
Emplace(m, k, v) == IF k \in DOMAIN m THEN m ELSE m @@ (k :> v)

(* ------------------------------ configuration -------------------------- *)
TopLevelKeys == {"loop_closure", "submap_refinement", "submap_alignment"}

LoopClosureKeys == {"candidate_search_config", "refinement_config",
                    "local_mapper_covariance", "loop_closure_covariance"}

SubmapRefinementKeys == {"scan_registration_config", "matcher_config"}

SubmapAlignmentKeys == {"matcher_config"}

CovarianceKeys == {"local_mapper_covariance", "loop_closure_covariance"}

\* the values a key of the configuration file may carry: a relative path
\* (possibly the empty string), or the diagonal of a covariance
JsonValues(k) ==
  CASE k = "local_mapper_covariance" -> {"1e-3"}
    [] k = "loop_closure_covariance" -> {"1e-5"}
    [] OTHER -> {"", "rel.json"}

\* the JSON objects that carry some of the given keys
JsonObjects(keys) ==
  UNION { {o \in [S -> {"", "rel.json", "1e-3", "1e-5"}] : \A k \in S : o[k] \in JsonValues(k)} :
            S \in SUBSET keys }

\* the matcher types Setup accepts
MatcherTypes == {"LOAM", "ICP", "GICP", "NDT"}

\* beam::CombinePaths(bs_common::GetBeamSlamConfigPath(), rel)
CombinePaths(root, rel) == <<root, rel>>

GetBeamSlamConfigPath == "beam_slam/config"

\* Params as default-constructed
DefaultParams ==
  [ loop_closure |->
      [ candidate_search_config |-> <<"default", "candidate_search_config">>,
        refinement_config       |-> <<"default", "refinement_config">>,
        local_mapper_covariance |-> "default_local_mapper_covariance",
        loop_closure_covariance |-> "default_loop_closure_covariance" ],
    submap_refinement |->
      [ scan_registration_config |-> <<"default", "scan_registration_config">>,
        matcher_config           |-> <<"default", "matcher_config">> ],
    submap_alignment |->
      [ matcher_config |-> <<"default", "matcher_config">> ] ]

\* a path parameter assigned whatever the value of its key
LoadPath_AlwaysAssigns(current, rel) == CombinePaths(GetBeamSlamConfigPath, rel)

\* a path parameter after reading its key: set only when the value is non-empty
LoadPath(current, rel) ==
  IF rel # "" THEN CombinePaths(GetBeamSlamConfigPath, rel) ELSE current

\* ValidateJsonKeysOrThrow(keys, J): does not throw
ValidateJsonKeys(keys, J) == keys \subseteq DOMAIN J

\* Params::LoadJson(config_path) on the parameters p, for the configuration c:
\* whether it throws, and the parameters it leaves
LoadJson(p, c) ==
  IF c.config_path = "" THEN [raised |-> FALSE, params |-> p]
  ELSE IF ~c.readable THEN [raised |-> TRUE, params |-> p]
  ELSE IF ~ValidateJsonKeys(TopLevelKeys, c.J) THEN [raised |-> TRUE, params |-> p]
  ELSE
    LET J_loop_closure      == c.J["loop_closure"]
        J_submap_refinement == c.J["submap_refinement"]
        J_submap_alignment  == c.J["submap_alignment"]
    IN
    IF ~ValidateJsonKeys(LoopClosureKeys, J_loop_closure)
      THEN [raised |-> TRUE, params |-> p]
    ELSE
      LET p1 == [p EXCEPT
                   !.loop_closure.candidate_search_config =
                      LoadPath(@, J_loop_closure["candidate_search_config"]),
                   !.loop_closure.loop_closure_covariance =
                      J_loop_closure["loop_closure_covariance"],
                   !.loop_closure.local_mapper_covariance =
                      J_loop_closure["local_mapper_covariance"],
                   !.loop_closure.refinement_config =
                      LoadPath(@, J_loop_closure["refinement_config"])]
      IN
      IF ~ValidateJsonKeys(SubmapRefinementKeys, J_submap_refinement)
        THEN [raised |-> TRUE, params |-> p1]
      ELSE
        LET p2 == [p1 EXCEPT
                     !.submap_refinement.scan_registration_config =
                        LoadPath(@, J_submap_refinement["scan_registration_config"]),
                     !.submap_refinement.matcher_config =
                        LoadPath(@, J_submap_refinement["matcher_config"])]
        IN
        IF ~ValidateJsonKeys(SubmapAlignmentKeys, J_submap_alignment)
          THEN [raised |-> TRUE, params |-> p2]
        ELSE
          [ raised |-> FALSE,
            params |-> [p2 EXCEPT
                          !.submap_alignment.matcher_config =
                             LoadPath(@, J_submap_alignment["matcher_config"])] ]

\* Setup() accepting whatever GetTypeFromConfig reports
Setup_AnyMatcherType(c) == c.matcher_type \in MatcherTypes \cup {"invalid"}

\* Setup(): does not throw; c.matcher_type is what GetTypeFromConfig reports
\* for params_.submap_alignment.matcher_config
Setup(c) == c.matcher_type \in MatcherTypes

\* summary.json before SaveResults has written it
NoSummaryFile ==
  [written |-> FALSE, submap_refinement |-> <<>>, submap_alignment |-> <<>>]

\* no configuration file: the constructors given an empty config_path
NoConfigFile(matcher_type) ==
  [config_path |-> "", readable |-> FALSE, J |-> <<>>, matcher_type |-> matcher_type]

\* a configuration file at a non-empty path
ConfigFile(readable, J, matcher_type) ==
  [config_path |-> "refinement.json", readable |-> readable, J |-> J,
   matcher_type |-> matcher_type]

\* the contents a configuration file may have
JsonFiles ==
  { [t \in T |-> CASE t = "loop_closure" -> lc
                   [] t = "submap_refinement" -> sr
                   [] t = "submap_alignment" -> sa] :
      T \in SUBSET TopLevelKeys,
      lc \in JsonObjects(LoopClosureKeys),
      sr \in JsonObjects(SubmapRefinementKeys),
      sa \in JsonObjects(SubmapAlignmentKeys) }

\* a complete configuration file, with every path given
FullJson ==
  [t \in TopLevelKeys |->
     CASE t = "loop_closure" ->
            [k \in LoopClosureKeys |->
               IF k \in CovarianceKeys THEN CHOOSE v \in JsonValues(k) : TRUE
               ELSE "rel.json"]
       [] t = "submap_refinement" -> [k \in SubmapRefinementKeys |-> "rel.json"]
       [] t = "submap_alignment" -> [k \in SubmapAlignmentKeys |-> "rel.json"]]

(* ------------------------------ submap store --------------------------- *)
NumSubmaps == Cardinality(DOMAIN submaps) + untracked_submaps

\* stamp of submap n, and of its k-th lidar keyframe
SubmapStamp(n) == <<n, 0>>
ScanStamp(n, k) == <<n, k>>

\* number of lidar keyframes the loaded submap n holds
NumScans(n) == n % (MaxScans + 1)

\* pose of submap n as the local mapper estimated it (odometry chain)
RECURSIVE LocalMapperPose(_)
LocalMapperPose(n) ==
  IF n = 0 THEN Identity
  ELSE Compose(LocalMapperPose(n - 1), IF n % 2 = 1 THEN <<1, 0>> ELSE <<1, 1>>)

\* a submap as the GlobalMap constructor loads it
LoadedSubmap(n) ==
  [ Stamp               |-> SubmapStamp(n),
    T_WORLD_SUBMAP      |-> LocalMapperPose(n),
    T_WORLD_SUBMAP_INIT |-> LocalMapperPose(n),
    scans               |-> [k \in 1 .. NumScans(n) |-> <<k % PoseMod, 0>>] ]

EmptyGraph == [values |-> <<>>, priors |-> EmptyBag, constraints |-> EmptyBag]

\* the members after construction, and a caller that has made calls_made stage
\* calls
MembersInitialised(calls_made) ==
  /\ summary = [submap_refinement |-> <<>>, submap_alignment |-> <<>>]
  /\ stage = "none"
  /\ ret = "none"
  /\ calls = calls_made
  /\ i = 0
  /\ match_failed = FALSE
  /\ graph = EmptyGraph
  /\ query_index = 0
  /\ matched_indices = <<>>
  /\ ignore_last_n_submaps = 0
  /\ cand = 0
  /\ transaction = EmptyBag
  /\ attempted = <<>>
  /\ log = <<>>
  /\ refine_graph = {}
  /\ output_path_invalid = FALSE
  /\ params = DefaultParams
  /\ summary_json = NoSummaryFile

\* the loaded store of at most max_submaps submaps, the members as the
\* constructor initialises them, and a caller that has made calls_made stage calls
StoreLoaded(max_submaps, calls_made) ==
  /\ \E n \in 0 .. max_submaps : submaps = [s \in 0 .. n - 1 |-> LoadedSubmap(s)]
  /\ untracked_submaps = 0
  /\ pgo_skip_first_n_submaps \in 0 .. MaxSkipFirstN
  /\ MembersInitialised(calls_made)

\* the state after construction, for a store of at most max_submaps submaps
\* and a caller that has made calls_made stage calls
Constructed(max_submaps, calls_made) ==
  /\ StoreLoaded(max_submaps, calls_made)
  /\ config = NoConfigFile("ICP")
  /\ pc = "idle"

\* the state when a constructor is entered with one of the given configurations
Unconstructed(max_submaps, calls_made, configs) ==
  /\ StoreLoaded(max_submaps, calls_made)
  /\ config \in configs
  /\ pc = "unconstructed"

\* GlobalMapRefinement(global_map, config_path): params_.LoadJson(config_path)
\* and Setup(); an exception of either leaves no object
Construct ==
  /\ pc = "unconstructed"
  /\ LET l == LoadJson(params, config)
     IN  /\ params' = l.params
         /\ pc' = IF l.raised THEN "raised_load_json"
                  ELSE IF ~Setup(config) THEN "raised_setup"
                  ELSE "idle"
  /\ UNCHANGED <<submaps, untracked_submaps, summary, pgo_skip_first_n_submaps,
                 stage, ret, calls, i,
                 match_failed, graph, query_index, matched_indices,
                 ignore_last_n_submaps, cand, transaction, attempted, log,
                 refine_graph, output_path_invalid, config, summary_json>>

\* Submap::UpdatePose(T): sets the current pose of the submap
SubmapUpdatePose(submap, T) == [submap EXCEPT !.T_WORLD_SUBMAP = T]

(* ------------------------------ alignment ------------------------------ *)
\* what the matcher may report for a pair: Match() and ApplyResult(seed)
MatcherResults(seed) ==
  { [match_success |-> ok, T |-> Compose(seed, d)] :
      ok \in BOOLEAN, d \in {Identity, <<1, 1>>} }

\* AlignSubmaps filing its summary entry under the reference submap's stamp
AlignSubmaps_KeyedByReference(submap_ref, submap_tgt, m, align_summary) ==
  LET T_World_SubmapRef      == submap_ref.T_WORLD_SUBMAP
      T_W_B_i                == submap_tgt.T_WORLD_SUBMAP
      T_SubmapRef_SubmapTgt  == m.T
      T_World_SubmapTgt      == Compose(T_World_SubmapRef, T_SubmapRef_SubmapTgt)
      T_W_B_f                == T_World_SubmapTgt
  IN  [ tgt     |-> SubmapUpdatePose(submap_tgt, T_World_SubmapTgt),
        summary |-> Emplace(align_summary, submap_ref.Stamp,
                            RegistrationResult(T_W_B_i, T_W_B_f)),
        ok      |-> TRUE ]

\* AlignSubmaps moving the target's scan poses along with the submap
AlignSubmaps_MovesScans(submap_ref, submap_tgt, m, align_summary) ==
  LET T_World_SubmapTgt == Compose(submap_ref.T_WORLD_SUBMAP, m.T)
  IN  [ tgt     |-> [submap_tgt EXCEPT
                       !.T_WORLD_SUBMAP = T_World_SubmapTgt,
                       !.scans = [k \in DOMAIN @ |-> Compose(<<1, 0>>, @[k])]],
        summary |-> Emplace(align_summary, submap_tgt.Stamp,
                            RegistrationResult(submap_tgt.T_WORLD_SUBMAP,
                                               T_World_SubmapTgt)),
        ok      |-> TRUE ]

\* AlignSubmaps composing the new pose from the reference's initial pose
AlignSubmaps_FromInitialRef(submap_ref, submap_tgt, m, align_summary) ==
  LET T_World_SubmapTgt == Compose(submap_ref.T_WORLD_SUBMAP_INIT, m.T)
  IN  [ tgt     |-> SubmapUpdatePose(submap_tgt, T_World_SubmapTgt),
        summary |-> Emplace(align_summary, submap_tgt.Stamp,
                            RegistrationResult(submap_tgt.T_WORLD_SUBMAP,
                                               T_World_SubmapTgt)),
        ok      |-> TRUE ]

\* AlignSubmaps storing the new pose as the initial pose as well
AlignSubmaps_OverwritesInit(submap_ref, submap_tgt, m, align_summary) ==
  LET T_World_SubmapTgt == Compose(submap_ref.T_WORLD_SUBMAP, m.T)
  IN  [ tgt     |-> [submap_tgt EXCEPT !.T_WORLD_SUBMAP = T_World_SubmapTgt,
                                       !.T_WORLD_SUBMAP_INIT = T_World_SubmapTgt],
        summary |-> Emplace(align_summary, submap_tgt.Stamp,
                            RegistrationResult(submap_tgt.T_WORLD_SUBMAP,
                                               T_World_SubmapTgt)),
        ok      |-> TRUE ]

\* AlignSubmaps(submap_ref, submap_tgt): the new target submap, the new
\* alignment summary and the returned bool, for one matcher result m
AlignSubmaps(submap_ref, submap_tgt, m, align_summary) ==
  LET T_World_SubmapRef      == submap_ref.T_WORLD_SUBMAP
      T_World_SubmapRef_Init == submap_ref.T_WORLD_SUBMAP_INIT
      T_World_SubmapTgt_Init == submap_tgt.T_WORLD_SUBMAP_INIT
      T_W_B_i                == submap_tgt.T_WORLD_SUBMAP
      T_SubmapRef_SubmapTgt  == m.T
      T_World_SubmapTgt      == Compose(T_World_SubmapRef, T_SubmapRef_SubmapTgt)
      T_W_B_f                == T_World_SubmapTgt
  IN  [ tgt     |-> SubmapUpdatePose(submap_tgt, T_World_SubmapTgt),
        summary |-> Emplace(align_summary, submap_tgt.Stamp,
                            RegistrationResult(T_W_B_i, T_W_B_f)),
        ok      |-> TRUE ]

\* the cloud Submap::GetLidarPointsInWorldFrameCombined(use_initials = true)
\* returns: the scans of the submap placed with its initial pose
InitialWorldCloud(submap) ==
  [ Stamp |-> submap.Stamp, T |-> submap.T_WORLD_SUBMAP_INIT, scans |-> submap.scans ]

\* the seed taken from the current poses instead of the initial poses
AlignSeed_FromCurrentPoses(submap_ref, submap_tgt) ==
  Compose(InvertTransform(submap_ref.T_WORLD_SUBMAP), submap_tgt.T_WORLD_SUBMAP)

\* the seed handed to ApplyResult: T_SubmapRef_SubmapTgt_Init
AlignSeed(submap_ref, submap_tgt) ==
  Compose(InvertTransform(submap_ref.T_WORLD_SUBMAP_INIT),
          submap_tgt.T_WORLD_SUBMAP_INIT)

\* the clouds taken from the current pose of their submap
AlignInputs_CurrentPoseClouds(submap_ref, submap_tgt) ==
  LET T_SubmapRef_WorldInit == InvertTransform(submap_ref.T_WORLD_SUBMAP_INIT)
  IN  [ ref  |-> <<T_SubmapRef_WorldInit,
                   [InitialWorldCloud(submap_ref) EXCEPT !.T = submap_ref.T_WORLD_SUBMAP]>>,
        tgt  |-> <<T_SubmapRef_WorldInit,
                   [InitialWorldCloud(submap_tgt) EXCEPT !.T = submap_tgt.T_WORLD_SUBMAP]>>,
        seed |-> AlignSeed(submap_ref, submap_tgt) ]

\* what AlignSubmaps hands to the matcher: the two clouds, each transformed by
\* T_SubmapRef_WorldInit, and the seed of ApplyResult
AlignInputs(submap_ref, submap_tgt) ==
  LET T_SubmapRef_WorldInit == InvertTransform(submap_ref.T_WORLD_SUBMAP_INIT)
  IN  [ ref  |-> <<T_SubmapRef_WorldInit, InitialWorldCloud(submap_ref)>>,
        tgt  |-> <<T_SubmapRef_WorldInit, InitialWorldCloud(submap_tgt)>>,
        seed |-> AlignSeed(submap_ref, submap_tgt) ]

\* RunSubmapAlignment entering its loop whatever the size of the store
RunSubmapAlignment_NoSizeCheck ==
  /\ pc = "idle"
  /\ calls < MaxCalls
  /\ calls' = calls + 1
  /\ stage' = "alignment"
  /\ match_failed' = FALSE
  /\ pc' = "align"
  /\ ret' = "none"
  /\ i' = 1
  /\ output_path_invalid' \in BOOLEAN
  /\ UNCHANGED <<submaps, summary, pgo_skip_first_n_submaps, untracked_submaps, refine_graph>>
  /\ UNCHANGED pgo_vars
  /\ UNCHANGED caller_vars

\* RunSubmapAlignment up to the first loop test
RunSubmapAlignment ==
  /\ pc = "idle"
  /\ calls < MaxCalls
  /\ calls' = calls + 1
  /\ stage' = "alignment"
  /\ match_failed' = FALSE
  /\ IF NumSubmaps < 2
       THEN /\ pc' = "idle"
            /\ ret' = "true"
            /\ i' = i
            /\ output_path_invalid' = FALSE
       ELSE /\ pc' = "align"
            /\ ret' = "none"
            /\ i' = 1
            /\ output_path_invalid' \in BOOLEAN
  /\ UNCHANGED <<submaps, summary, pgo_skip_first_n_submaps, untracked_submaps, refine_graph>>
  /\ UNCHANGED pgo_vars
  /\ UNCHANGED caller_vars

\* one iteration of the loop of RunSubmapAlignment: AlignSubmaps(i - 1, i)
AlignLoopBody ==
  /\ pc = "align"
  /\ i < NumSubmaps
  /\ IF i = 0
       THEN \* submaps.at(i - 1) throws std::out_of_range
            /\ pc' = "raised_out_of_range"
            /\ UNCHANGED <<submaps, summary, match_failed, i, ret>>
       ELSE IF output_path_invalid
       THEN \* throw std::runtime_error{"invalid path"}
            /\ pc' = "raised_invalid_path"
            /\ UNCHANGED <<submaps, summary, match_failed, i, ret>>
       ELSE IF i \notin DOMAIN submaps
       THEN \* a pair of submaps whose poses are not represented
            /\ i' = (i + 1) % Uint16Modulus
            /\ pc' = "align"
            /\ UNCHANGED <<submaps, summary, match_failed, ret>>
       ELSE \E m \in MatcherResults(AlignSeed(submaps[i - 1], submaps[i])) :
              LET r == AlignSubmaps(submaps[i - 1], submaps[i], m,
                                    summary.submap_alignment)
              IN  /\ submaps' = [submaps EXCEPT ![i] = r.tgt]
                  /\ summary' = [summary EXCEPT !.submap_alignment = r.summary]
                  /\ match_failed' = (match_failed \/ ~m.match_success)
                  /\ IF r.ok
                       THEN /\ i' = (i + 1) % Uint16Modulus
                            /\ pc' = "align"
                            /\ ret' = ret
                       ELSE /\ i' = i
                            /\ pc' = "idle"
                            /\ ret' = "false"
  /\ UNCHANGED <<pgo_skip_first_n_submaps, untracked_submaps, stage, calls, refine_graph,
                 output_path_invalid>>
  /\ UNCHANGED pgo_vars
  /\ UNCHANGED caller_vars

\* the loop of RunSubmapAlignment ends: return true
AlignReturn ==
  /\ pc = "align"
  /\ ~(i < NumSubmaps)
  /\ pc' = "idle"
  /\ ret' = "true"
  /\ UNCHANGED <<submaps, summary, pgo_skip_first_n_submaps, untracked_submaps, stage, calls, i,
                 match_failed, refine_graph, output_path_invalid>>
  /\ UNCHANGED pgo_vars
  /\ UNCHANGED caller_vars

(* ------------------------------ refinement ----------------------------- *)
\* what scan registration and the local solve may yield for one lidar
\* keyframe: whether RegisterNewScan gave a transaction (the scan is then a
\* variable of the local graph) and the value the local graph holds for it
ScanOutcomes(T_REFFRAME_BASELINK) ==
  { [registered |-> reg, T |-> Compose(T_REFFRAME_BASELINK, d)] :
      reg \in BOOLEAN, d \in {Identity, <<1, 0>>} }

\* ScanPose::UpdatePose(graph): takes the graph's value when the graph holds
\* the scan's variables, keeps the pose otherwise
ScanPoseUpdatePose(T_REFFRAME_BASELINK, o) ==
  IF o.registered THEN o.T ELSE T_REFFRAME_BASELINK

RECURSIVE EmplaceScans(_, _, _, _, _)
EmplaceScans(m, n, before, after, k) ==
  IF k > Len(before) THEN m
  ELSE EmplaceScans(Emplace(m, ScanStamp(n, k),
                            RegistrationResult(before[k], after[k])),
                    n, before, after, k + 1)

\* RefineSubmap registering against the map left by the submaps refined before
\* (the registration map is not cleared): the scans land elsewhere once
\* another submap has been refined
RefineSubmap_KeepsRegistrationMap(n, submap, o, refine_summary) ==
  LET carried == IF refine_summary = <<>> THEN Identity ELSE <<1, 0>>
      after == [k \in DOMAIN submap.scans |->
                  Compose(ScanPoseUpdatePose(submap.scans[k], o[k]), carried)]
  IN  [ submap  |-> [submap EXCEPT !.scans = after],
        summary |-> EmplaceScans(refine_summary, n, submap.scans, after, 1),
        graph   |-> {ScanStamp(n, k) : k \in {j \in DOMAIN o : o[j].registered}},
        ok      |-> TRUE ]

\* RefineSubmap recording one summary entry for the submap instead of one per
\* lidar keyframe
RefineSubmap_OneEntryPerSubmap(n, submap, o, refine_summary) ==
  LET after == [k \in DOMAIN submap.scans |->
                  ScanPoseUpdatePose(submap.scans[k], o[k])]
  IN  [ submap  |-> [submap EXCEPT !.scans = after],
        summary |-> Emplace(refine_summary, SubmapStamp(n),
                            RegistrationResult(Identity, Identity)),
        graph   |-> {ScanStamp(n, k) : k \in {j \in DOMAIN o : o[j].registered}},
        ok      |-> TRUE ]

\* RefineSubmap giving up at the first lidar keyframe that does not register
RefineSubmap_AbortsOnFailure(n, submap, o, refine_summary) ==
  LET after == [k \in DOMAIN submap.scans |->
                  ScanPoseUpdatePose(submap.scans[k], o[k])]
      failed == \E k \in DOMAIN o : ~o[k].registered
  IN  [ submap  |-> IF failed THEN submap ELSE [submap EXCEPT !.scans = after],
        summary |-> IF failed THEN refine_summary
                    ELSE EmplaceScans(refine_summary, n, submap.scans, after, 1),
        graph   |-> {ScanStamp(n, k) : k \in {j \in DOMAIN o : o[j].registered}},
        ok      |-> ~failed ]

\* RefineSubmap(submap): the new submap, the new refinement summary and the
\* returned bool, for the outcomes o (one per lidar keyframe)
RefineSubmap(n, submap, o, refine_summary) ==
  LET after == [k \in DOMAIN submap.scans |->
                  ScanPoseUpdatePose(submap.scans[k], o[k])]
  IN  [ submap  |-> [submap EXCEPT !.scans = after],
        summary |-> EmplaceScans(refine_summary, n, submap.scans, after, 1),
        graph   |-> {ScanStamp(n, k) : k \in {j \in DOMAIN o : o[j].registered}},
        ok      |-> TRUE ]

\* RunSubmapRefinement, entered
RunSubmapRefinement ==
  /\ pc = "idle"
  /\ calls < MaxCalls
  /\ calls' = calls + 1
  /\ stage' = "refinement"
  /\ pc' = "refine"
  /\ ret' = "none"
  /\ i' = 0
  /\ output_path_invalid' \in (IF NumSubmaps = 0 THEN {FALSE} ELSE BOOLEAN)
  /\ UNCHANGED <<match_failed, refine_graph>>
  /\ UNCHANGED store_vars
  /\ UNCHANGED pgo_vars
  /\ UNCHANGED caller_vars

\* one iteration of the loop of RunSubmapRefinement: RefineSubmap(submaps.at(i))
RefineLoopBody ==
  /\ pc = "refine"
  /\ i < NumSubmaps
  /\ IF output_path_invalid
       THEN \* throw std::runtime_error{"invalid path"}
            /\ pc' = "raised_invalid_path"
            /\ UNCHANGED <<submaps, summary, refine_graph, i, ret>>
       ELSE IF i \notin DOMAIN submaps
       THEN \* a submap without scans: a fresh graph, nothing registered
            /\ refine_graph' = {}
            /\ i' = (i + 1) % Uint16Modulus
            /\ pc' = "refine"
            /\ UNCHANGED <<submaps, summary, ret>>
       ELSE \E o \in [DOMAIN submaps[i].scans ->
                       UNION {ScanOutcomes(submaps[i].scans[k]) :
                                k \in DOMAIN submaps[i].scans}] :
              /\ \A k \in DOMAIN o : o[k] \in ScanOutcomes(submaps[i].scans[k])
              /\ LET r == RefineSubmap(i, submaps[i], o, summary.submap_refinement)
                 IN  /\ submaps' = [submaps EXCEPT ![i] = r.submap]
                     /\ summary' = [summary EXCEPT !.submap_refinement = r.summary]
                     /\ refine_graph' = r.graph
                     /\ IF r.ok
                          THEN /\ i' = (i + 1) % Uint16Modulus
                               /\ pc' = "refine"
                               /\ ret' = ret
                          ELSE /\ i' = i
                               /\ pc' = "idle"
                               /\ ret' = "false"
  /\ UNCHANGED <<pgo_skip_first_n_submaps, untracked_submaps, stage, calls, match_failed,
                 output_path_invalid>>
  /\ UNCHANGED pgo_vars
  /\ UNCHANGED caller_vars

\* the loop of RunSubmapRefinement ends: return true
RefineReturn ==
  /\ pc = "refine"
  /\ ~(i < NumSubmaps)
  /\ pc' = "idle"
  /\ ret' = "true"
  /\ UNCHANGED <<stage, calls, i, match_failed, refine_graph,
                 output_path_invalid>>
  /\ UNCHANGED store_vars
  /\ UNCHANGED pgo_vars
  /\ UNCHANGED caller_vars

(* ------------------------ pose-graph optimization ---------------------- *)
\* graph->update(transaction): adds the transaction's variables, priors and
\* constraints to the graph
GraphUpdate(g, t) ==
  [ values      |-> t.values @@ g.values,
    priors      |-> g.priors (+) t.priors,
    constraints |-> g.constraints (+) t.constraints ]

\* prior_transaction: the pose variables of submaps.at(0) and a prior on them
FirstPosePrior(subs) ==
  [ values      |-> (0 :> subs[0].T_WORLD_SUBMAP),
    priors      |-> SetToBag({ [submap |-> 0, T |-> subs[0].T_WORLD_SUBMAP,
                                noise |-> "pose_prior_noise_"] }),
    constraints |-> EmptyBag ]

\* a chain transaction that also puts a prior on its submap
RelativePoseTransaction_WithPrior(subs, n) ==
  [ values      |-> (n :> subs[n].T_WORLD_SUBMAP),
    priors      |-> SetToBag({ [submap |-> n, T |-> subs[n].T_WORLD_SUBMAP,
                                noise |-> "pose_prior_noise_"] }),
    constraints |-> SetToBag({ [from |-> n - 1, to |-> n,
                                T |-> Compose(InvertTransform(subs[n - 1].T_WORLD_SUBMAP),
                                              subs[n].T_WORLD_SUBMAP),
                                covariance |-> params.loop_closure.local_mapper_covariance,
                                source |-> "GlobalMap::InitiateNewSubmapPose"] }) ]

\* new_transaction of the chain loop for submap n >= 1: its pose variables and
\* the relative constraint to submap n - 1
RelativePoseTransaction(subs, n) ==
  [ values      |-> (n :> subs[n].T_WORLD_SUBMAP),
    priors      |-> EmptyBag,
    constraints |-> SetToBag({ [from |-> n - 1, to |-> n,
                                T |-> Compose(InvertTransform(subs[n - 1].T_WORLD_SUBMAP),
                                              subs[n].T_WORLD_SUBMAP),
                                covariance |-> params.loop_closure.local_mapper_covariance,
                                source |-> "GlobalMap::InitiateNewSubmapPose"] }) ]

\* the chain loop of RunPoseGraphOptimization, from submap n on
RECURSIVE AddRelativePoseTransactions(_, _, _)
AddRelativePoseTransactions(g, subs, n) ==
  IF ~(n < Cardinality(DOMAIN subs)) THEN g
  ELSE AddRelativePoseTransactions(GraphUpdate(g, RelativePoseTransaction(subs, n)),
                                   subs, n + 1)

\* graph assembly that ends with a baseline solve
AssembleGraph_BaselineSolve(subs) ==
  [ graph |-> AddRelativePoseTransactions(GraphUpdate(EmptyGraph, FirstPosePrior(subs)),
                                          subs, 1),
    log   |-> <<"optimize">> ]

\* the graph RunPoseGraphOptimization holds when the sweep starts, and the
\* graph calls other than update made while assembling it (none)
AssembleGraph(subs) ==
  [ graph |-> AddRelativePoseTransactions(GraphUpdate(EmptyGraph, FirstPosePrior(subs)),
                                          subs, 1),
    log   |-> <<>> ]

\* a store too small for the sweep making the stage report failure
CheckNumSubmaps_ReturnsFalse(num_submaps, skip_first_n) ==
  IF num_submaps <= skip_first_n THEN "return false" ELSE "ok"

\* the size check at the head of RunPoseGraphOptimization: a store of no more
\* than pgo_skip_first_n_submaps_ submaps is reported with BEAM_ERROR, and the
\* function goes on
CheckNumSubmaps(num_submaps, skip_first_n) ==
  IF num_submaps <= skip_first_n THEN "BEAM_ERROR" ELSE "ok"

\* RunPoseGraphOptimization up to the first test of the sweep loop;
\* submaps.at(0) throws std::out_of_range for an empty store
RunPoseGraphOptimization ==
  /\ pc = "idle"
  /\ calls < MaxCalls
  /\ calls' = calls + 1
  /\ stage' = "pgo"
  /\ CASE CheckNumSubmaps(NumSubmaps, pgo_skip_first_n_submaps) = "return false" ->
            /\ pc' = "idle"
            /\ ret' = "false"
            /\ UNCHANGED pgo_vars
       [] OTHER ->
            /\ ret' = "none"
            /\ IF NumSubmaps = 0
                 THEN /\ pc' = "raised"
                      /\ UNCHANGED pgo_vars
                 ELSE /\ pc' = "pgo_sweep"
                      /\ graph' = AssembleGraph(submaps).graph
                      /\ query_index' = pgo_skip_first_n_submaps
                      /\ matched_indices' = <<>>
                      /\ ignore_last_n_submaps' = 0
                      /\ cand' = 0
                      /\ transaction' = EmptyBag
                      /\ attempted' = <<>>
                      /\ log' = AssembleGraph(submaps).log
  /\ UNCHANGED <<i, match_failed, refine_graph,
                 output_path_invalid>>
  /\ UNCHANGED caller_vars
  /\ UNCHANGED store_vars

\* what FindRelocCandidates may put into matched_indices: a ranked list of
\* distinct submaps of the store
CandidateLists ==
  { found \in UNION { [1 .. k -> 0 .. NumSubmaps - 1] : k \in 0 .. MaxCandidates } :
      \A a, b \in DOMAIN found : found[a] = found[b] => a = b }

\* the sweep entering the candidate loop, and so the update, the solve and the
\* write-back, even for an empty list
AfterSearch_EmptyRefines(found) == "refine"

\* what the sweep does with the list the search found: "continue" goes to the
\* next query index, "refine" enters the candidate loop
AfterSearch_EmptyIsError(found) == IF Len(found) = 0 THEN "fail" ELSE "refine"

AfterSearch(found) == IF Len(found) = 0 THEN "continue" ELSE "refine"

\* the sweep taking the last submap as a query too
SweepContinues_ThroughLast(q, num_submaps) == q < num_submaps

\* the test of the sweep loop: query_index < num_submaps - 1
SweepContinues(q, num_submaps) == q < num_submaps - 1

\* ignore_last_n_submaps without the + 1
IgnoreLastNSubmaps_QueryOnly(num_submaps, q) == num_submaps - q

\* int ignore_last_n_submaps = submaps.size() - query_index + 1
IgnoreLastNSubmaps(num_submaps, q) == num_submaps - q + 1

\* head of the sweep loop: FindRelocCandidates for query_index, and the
\* `continue` when it finds nothing
FindRelocCandidates ==
  /\ pc = "pgo_sweep"
  /\ SweepContinues(query_index, NumSubmaps)
  /\ \E found \in CandidateLists :
       /\ matched_indices' = found
       /\ CASE AfterSearch(found) = "continue" ->
                 /\ query_index' = query_index + 1
                 /\ pc' = "pgo_sweep"
                 /\ ret' = ret
            [] AfterSearch(found) = "refine" ->
                 /\ query_index' = query_index
                 /\ pc' = "pgo_candidates"
                 /\ ret' = ret
            [] OTHER ->
                 /\ query_index' = query_index
                 /\ pc' = "idle"
                 /\ ret' = "false"
  /\ ignore_last_n_submaps' = IgnoreLastNSubmaps(NumSubmaps, query_index)
  /\ cand' = 0
  /\ transaction' = EmptyBag
  /\ attempted' = <<>>
  /\ log' = <<"FindRelocCandidates">>
  /\ UNCHANGED graph
  /\ UNCHANGED <<stage, calls, i, match_failed, refine_graph,
                 output_path_invalid>>
  /\ UNCHANGED caller_vars
  /\ UNCHANGED store_vars

\* Ts_MATCH_QUERY[i]: the coarse transform the search estimates for matched
\* index m and the query, from the current poses (use_initial_poses = false)
CoarseTransform(subs, m, q) ==
  Compose(InvertTransform(subs[m].T_WORLD_SUBMAP), subs[q].T_WORLD_SUBMAP)

\* what RunRefinement may report for a candidate with coarse transform T
RefinementResults(T) ==
  { [successful |-> ok, T_MATCH_QUERY |-> T] : ok \in BOOLEAN }

\* a loop-closure constraint weighted like a constraint of the chain
LoopClosureConstraint_ChainCovariance(matched, query, results) ==
  [ from |-> matched, to |-> query, T |-> results.T_MATCH_QUERY,
    covariance |-> params.loop_closure.local_mapper_covariance,
    source |-> "GlobalMap::RunLoopClosure" ]

\* the constraint merged into the transaction for a refined candidate
LoopClosureConstraint(matched, query, results) ==
  [ from |-> matched, to |-> query, T |-> results.T_MATCH_QUERY,
    covariance |-> params.loop_closure.loop_closure_covariance,
    source |-> "GlobalMap::RunLoopClosure" ]

\* the candidate check off by one: only m >= q is skipped
RejectCandidate_OffByOne(m, q) == m >= q

\* whether the candidate loop skips matched index m without refining it
RejectCandidate(m, q) == m >= q - 1

\* merging the constraint without looking at results.successful
MergeCandidate_IgnoresSuccess(t, matched, query, results) ==
  t (+) SetToBag({LoopClosureConstraint(matched, query, results)})

\* the transaction after a candidate whose refinement gave results
MergeCandidate(t, matched, query, results) ==
  IF ~results.successful THEN t
  ELSE t (+) SetToBag({LoopClosureConstraint(matched, query, results)})

\* one iteration of the candidate loop
CandidateLoopBody ==
  /\ pc = "pgo_candidates"
  /\ cand < Len(matched_indices)
  /\ LET m == matched_indices[cand + 1]
     IN  IF RejectCandidate(m, query_index)
           THEN UNCHANGED <<transaction, attempted>>
           ELSE \E results \in RefinementResults(CoarseTransform(submaps, m, query_index)) :
                  /\ attempted' = (cand :> results.successful) @@ attempted
                  /\ transaction' = MergeCandidate(transaction, m, query_index, results)
  /\ cand' = cand + 1
  /\ UNCHANGED <<graph, query_index, matched_indices, ignore_last_n_submaps, log>>
  /\ UNCHANGED <<pc, stage, ret, calls, i, match_failed, refine_graph,
                 output_path_invalid>>
  /\ UNCHANGED caller_vars
  /\ UNCHANGED store_vars

\* the candidate loop followed by the solve, the transaction never applied
ApplyTransaction_Dropped ==
  /\ pc = "pgo_candidates"
  /\ ~(cand < Len(matched_indices))
  /\ pc' = "pgo_optimize"
  /\ UNCHANGED <<graph, log, query_index, matched_indices, ignore_last_n_submaps,
                 cand, transaction, attempted>>
  /\ UNCHANGED <<stage, ret, calls, i, match_failed, refine_graph,
                 output_path_invalid>>
  /\ UNCHANGED caller_vars
  /\ UNCHANGED store_vars

\* after the candidate loop: graph->update(*transaction)
ApplyTransaction ==
  /\ pc = "pgo_candidates"
  /\ ~(cand < Len(matched_indices))
  /\ graph' = GraphUpdate(graph, [values |-> <<>>, priors |-> EmptyBag,
                                  constraints |-> transaction])
  /\ log' = Append(log, "update")
  /\ pc' = "pgo_optimize"
  /\ UNCHANGED <<query_index, matched_indices, ignore_last_n_submaps, cand,
                 transaction, attempted>>
  /\ UNCHANGED <<stage, ret, calls, i, match_failed, refine_graph,
                 output_path_invalid>>
  /\ UNCHANGED caller_vars
  /\ UNCHANGED store_vars

\* what graph->optimize() may leave in the graph: whether the solve converged
\* and the values of the pose variables
SolverResults(values) ==
  { [converged |-> c,
     values |-> [n \in DOMAIN values |->
                   IF n = 0 THEN values[n] ELSE Compose(values[n], d)]] :
      c \in BOOLEAN, d \in {Identity, <<0, 1>>} }

\* what the stage does once a solve has finished: "continue" goes on with the
\* sweep, "fail" returns false (the returned summary is discarded)
AfterSolve(converged) == "continue"

\* graph->optimize()
Optimize ==
  /\ pc = "pgo_optimize"
  /\ \E r \in SolverResults(graph.values) :
       /\ graph' = [graph EXCEPT !.values = r.values]
       /\ log' = Append(log, IF r.converged THEN "optimize" ELSE "optimize: no convergence")
       /\ IF AfterSolve(r.converged) = "continue"
            THEN pc' = "pgo_update_poses" /\ ret' = ret
            ELSE pc' = "idle" /\ ret' = "false"
  /\ UNCHANGED <<query_index, matched_indices, ignore_last_n_submaps, cand,
                 transaction, attempted>>
  /\ UNCHANGED <<stage, calls, i, match_failed, refine_graph,
                 output_path_invalid>>
  /\ UNCHANGED caller_vars
  /\ UNCHANGED store_vars

\* GlobalMap::UpdateSubmapPoses(graph): every submap takes the graph's value
UpdateSubmapPoses(subs, g) ==
  [n \in DOMAIN subs |->
     IF n \in DOMAIN g.values
       THEN SubmapUpdatePose(subs[n], g.values[n])
       ELSE subs[n]]

\* global_map_->UpdateSubmapPoses(graph, now), then query_index++
WriteBackPoses ==
  /\ pc = "pgo_update_poses"
  /\ submaps' = UpdateSubmapPoses(submaps, graph)
  /\ log' = Append(log, "UpdateSubmapPoses")
  /\ query_index' = query_index + 1
  /\ pc' = "pgo_sweep"
  /\ UNCHANGED <<graph, matched_indices, ignore_last_n_submaps, cand, transaction,
                 attempted>>
  /\ UNCHANGED <<stage, ret, calls, i, match_failed, refine_graph,
                 output_path_invalid>>
  /\ UNCHANGED caller_vars
  /\ UNCHANGED <<summary, pgo_skip_first_n_submaps, untracked_submaps>>

\* the sweep loop ends: return true
SweepReturn ==
  /\ pc = "pgo_sweep"
  /\ ~SweepContinues(query_index, NumSubmaps)
  /\ pc' = "idle"
  /\ ret' = "true"
  /\ UNCHANGED <<stage, calls, i, match_failed, refine_graph,
                 output_path_invalid>>
  /\ UNCHANGED caller_vars
  /\ UNCHANGED store_vars
  /\ UNCHANGED pgo_vars

(* ------------------------------- results ------------------------------- *)
\* ros::Time operator<
StampLess(a, b) == a[1] < b[1] \/ (a[1] = b[1] /\ a[2] < b[2])

\* the array Summary::Save writes for one of the two maps: one object per
\* entry, in the order of the stamps
RECURSIVE SaveEntries(_, _)
SaveEntries(m, stamps) ==
  IF stamps = {} THEN <<>>
  ELSE LET stamp == CHOOSE s \in stamps : \A t \in stamps \ {s} : StampLess(s, t)
       IN  << [dt_mm |-> m[stamp], dR_deg |-> m[stamp],
               sec |-> stamp[1], nsec |-> stamp[2]] >>
           \o SaveEntries(m, stamps \ {stamp})

\* Summary::Save leaving the refinement entries out
SummarySave_DropsRefinement(s) ==
  [ written           |-> TRUE,
    submap_refinement |-> <<>>,
    submap_alignment  |-> SaveEntries(s.submap_alignment, DOMAIN s.submap_alignment) ]

\* Summary::Save(output_path): the content of summary.json
SummarySave(s) ==
  [ written           |-> TRUE,
    submap_refinement |-> SaveEntries(s.submap_refinement, DOMAIN s.submap_refinement),
    submap_alignment  |-> SaveEntries(s.submap_alignment, DOMAIN s.submap_alignment) ]

\* SaveResults(output_path, save_initial), the caller's last step
SaveResults ==
  /\ pc \in {"idle", "raised", "raised_invalid_path"}
  /\ \E exists \in BOOLEAN :
       summary_json' = IF exists THEN SummarySave(summary) ELSE summary_json
  /\ pc' = "saved"
  /\ UNCHANGED <<stage, ret, calls, i, match_failed, refine_graph,
                 output_path_invalid, config, params>>
  /\ UNCHANGED store_vars
  /\ UNCHANGED pgo_vars

(* ---------------------------- specifications --------------------------- *)
NextRefinement ==
  \/ RunSubmapRefinement
  \/ RefineLoopBody
  \/ RefineReturn

NextAlignment ==
  \/ RunSubmapAlignment
  \/ AlignLoopBody
  \/ AlignReturn

NextPGO ==
  \/ RunPoseGraphOptimization
  \/ FindRelocCandidates
  \/ CandidateLoopBody
  \/ ApplyTransaction
  \/ Optimize
  \/ WriteBackPoses
  \/ SweepReturn

Next ==
  \/ NextRefinement
  \/ NextAlignment
  \/ NextPGO
  \/ SaveResults

NextSetup ==
  \/ Construct
  \/ Next

Init == Constructed(MaxPipelineSubmaps, 0)

\* the constructor entered with a configuration that loads and sets up, or
\* with one that does not
SetupConfigs ==
  { NoConfigFile("ICP"), NoConfigFile("invalid"),
    ConfigFile(TRUE, FullJson, "LOAM"), ConfigFile(TRUE, FullJson, "invalid"),
    ConfigFile(FALSE, <<>>, "ICP"),
    ConfigFile(TRUE, [t \in TopLevelKeys \ {"submap_alignment"} |-> FullJson[t]],
               "ICP") }

InitSetup == Unconstructed(MaxPipelineSubmaps, MaxCalls - 1, SetupConfigs)

\* the constructor entered with any configuration file
LoadJsonConfigs ==
  {NoConfigFile("ICP"), ConfigFile(FALSE, <<>>, "ICP")}
    \cup {ConfigFile(TRUE, J, "ICP") : J \in JsonFiles}

InitLoadJson == Unconstructed(0, 0, LoadJsonConfigs)

\* a larger store, and a caller that runs a single stage
InitStage == Constructed(MaxSubmaps, MaxCalls - 1)

\* the sizes of a store around the largest value of a uint16_t
LargeStoreSizes == {Uint16Modulus - 1, Uint16Modulus}

\* a store of that many scan-less submaps, and a caller that runs a single stage
InitLargeStore ==
  /\ submaps = <<>>
  /\ untracked_submaps \in LargeStoreSizes
  /\ pgo_skip_first_n_submaps = 0
  /\ MembersInitialised(MaxCalls - 1)
  /\ config = NoConfigFile("ICP")
  /\ pc = "idle"

\* any sequence of stage calls on a small store
Spec == Init /\ [][Next]_vars

\* construction, then a single stage call on a small store
SpecSetup == InitSetup /\ [][NextSetup]_vars

\* construction alone
SpecLoadJson == InitLoadJson /\ [][Construct]_vars

\* the refinement stage alone
SpecRefinement == InitStage /\ [][NextRefinement]_vars

\* the alignment stage alone
SpecAlignment == InitStage /\ [][NextAlignment]_vars

\* the pose-graph optimization stage alone
SpecPGO == InitStage /\ [][NextPGO]_vars

\* the refinement stage or the alignment stage on a store of about 2^16 submaps
SpecLargeStore == InitLargeStore /\ [][NextRefinement \/ NextAlignment]_vars

(* -------------------------------- claims ------------------------------- *)
\* the sweep of the running pose-graph optimization has a graph
GraphAssembled == stage = "pgo" /\ pc # "raised"

\* RunPoseGraphOptimization has returned
PGOReturned == stage = "pgo" /\ pc = "idle" /\ ret # "none"

IsOptimize(e) == e \in {"optimize", "optimize: no convergence"}

\* the sweep is about to make its first candidate search
BeforeFirstSearch ==
  /\ pc = "pgo_sweep"
  /\ query_index = pgo_skip_first_n_submaps
  /\ query_index < NumSubmaps - 1

\* the relative constraints of graph g between submaps a and b, with multiplicity
ConstraintsBetween(g, a, b) ==
  LET S == {e \in BagToSet(g.constraints) : e.from = a /\ e.to = b}
  IN  BagCardinality([e \in S |-> CopiesIn(e, g.constraints)])

\* C1: once Match() has failed for a pair of the alignment stage, the stage is
\* over and RunSubmapAlignment has returned false (so no later pair is aligned).
C1_MatchFailureAborts ==
  match_failed => (pc = "idle" /\ ret = "false")

\* C2 as stated: when the sweep is about to make its first candidate search,
\* the solver has been invoked exactly once (the baseline solve).
C2_BaselineSolveBeforeFirstSearch ==
  BeforeFirstSearch => log = <<"optimize">>

\* C2 amended: the solver is not invoked between the assembly of the chain graph
\* and the first candidate search; every solve of the stage comes third in a
\* sweep step, after that step's candidate search and graph update.
C2_NoSolveBeforeFirstSearch ==
  /\ BeforeFirstSearch => log = <<>>
  /\ \A k \in DOMAIN log :
       IsOptimize(log[k]) =>
         k = 3 /\ log[1] = "FindRelocCandidates" /\ log[2] = "update"

C2_Witness ==
  /\ BeforeFirstSearch
  /\ log = <<>>
  /\ BagCardinality(graph.constraints) >= 2

\* the sweep step of the last query index has applied its transaction, solved
\* and written the solved poses back to every submap, in that order
SweepStepComplete ==
  /\ Len(log) = 4
  /\ log[1] = "FindRelocCandidates"
  /\ log[2] = "update"
  /\ IsOptimize(log[3])
  /\ log[4] = "UpdateSubmapPoses"
  /\ transaction \sqsubseteq graph.constraints
  /\ \A n \in DOMAIN submaps : submaps[n].T_WORLD_SUBMAP = graph.values[n]

\* the calls of a sweep step are made in the order update, optimize,
\* UpdateSubmapPoses, and none before the candidate loop is over
SweepStepOrdered ==
  /\ pc = "pgo_candidates" => log = <<"FindRelocCandidates">>
  /\ pc = "pgo_optimize" =>
       /\ log = <<"FindRelocCandidates", "update">>
       /\ transaction \sqsubseteq graph.constraints
  /\ pc = "pgo_update_poses" =>
       /\ Len(log) = 3 /\ log[2] = "update" /\ IsOptimize(log[3])
       /\ transaction \sqsubseteq graph.constraints

\* C3 as stated: whenever the sweep is about to search for the next query
\* index, the step of the query index before it has applied its transaction,
\* re-solved the graph and written the poses back, in that order.
C3_EveryQueryAppliesSolvesWritesBack ==
  /\ SweepStepOrdered
  /\ (pc = "pgo_sweep" /\ query_index > pgo_skip_first_n_submaps)
       => SweepStepComplete

\* C3 amended: the same, for every query index whose candidate search returned
\* at least one candidate (a query index without candidates applies nothing).
C3_NonEmptyQueryAppliesSolvesWritesBack ==
  /\ SweepStepOrdered
  /\ (pc = "pgo_sweep" /\ query_index > pgo_skip_first_n_submaps
        /\ Len(matched_indices) > 0)
       => SweepStepComplete

C3_Witness ==
  /\ pc = "pgo_sweep"
  /\ query_index > pgo_skip_first_n_submaps
  /\ query_index < NumSubmaps - 1
  /\ BagCardinality(transaction) >= 1
  /\ SweepStepComplete
  /\ \E n \in DOMAIN submaps :
       submaps[n].T_WORLD_SUBMAP # submaps[n].T_WORLD_SUBMAP_INIT

\* C4: a step of the candidate loop on a candidate with matchedIndex >=
\* queryIndex - 1 invokes no refinement and adds no constraint, and the loop
\* goes on with the next candidate of the same query.
C4_RejectedCandidateSkipped ==
  [][ ( /\ pc = "pgo_candidates"
        /\ cand < Len(matched_indices)
        /\ matched_indices[cand + 1] >= query_index - 1 )
      => ( /\ attempted' = attempted
           /\ transaction' = transaction
           /\ graph' = graph
           /\ cand' = cand + 1
           /\ pc' = "pgo_candidates"
           /\ query_index' = query_index
           /\ ret' = ret ) ]_vars

C4_Witness ==
  /\ pc = "pgo_candidates"
  /\ query_index >= 2
  /\ cand = 1
  /\ Len(matched_indices) > 1
  /\ matched_indices[1] = query_index - 1
  /\ attempted = <<>>
  /\ transaction = EmptyBag

\* C5: once a solve of the stage has not converged, the stage is over and
\* RunPoseGraphOptimization has returned false.
C5_SolverFailureEndsRun ==
  (\E k \in DOMAIN log : log[k] = "optimize: no convergence")
    => (pc = "idle" /\ ret = "false")

\* the targets the running or finished alignment stage has aligned: 1 .. AlignedUpTo
AlignedUpTo ==
  IF stage # "alignment" THEN 0
  ELSE IF pc = "align" THEN i - 1
  ELSE NumSubmaps - 1

\* C6: for every aligned pair (n-1, n) with n >= 2, the pose of submap n is the
\* updated pose of submap n-1 composed with a transform the matcher may return
\* for the pair's seed.
C6_AlignmentUsesUpdatedReference ==
  \A n \in 2 .. AlignedUpTo :
    \E d \in {Identity, <<1, 1>>} :
      submaps[n].T_WORLD_SUBMAP =
        Compose(submaps[n - 1].T_WORLD_SUBMAP,
                Compose(Compose(InvertTransform(submaps[n - 1].T_WORLD_SUBMAP_INIT),
                                submaps[n].T_WORLD_SUBMAP_INIT), d))

C6_Witness ==
  /\ AlignedUpTo >= 3
  /\ submaps[2].T_WORLD_SUBMAP # submaps[2].T_WORLD_SUBMAP_INIT

\* C7: the graph of the stage has one pose variable per submap, exactly one
\* prior, on submap 0, at every point of the sweep, and exactly one relative
\* constraint per consecutive pair; before the first candidate search these
\* N - 1 constraints are all its constraints.
C7_ChainGraphShape ==
  GraphAssembled =>
    /\ DOMAIN graph.values = DOMAIN submaps
    /\ BagCardinality(graph.priors) = 1
    /\ \A p \in BagToSet(graph.priors) : p.submap = 0
    /\ \A n \in 1 .. NumSubmaps - 1 : ConstraintsBetween(graph, n - 1, n) = 1
    /\ (pc = "pgo_sweep" /\ log = <<>>)
         => BagCardinality(graph.constraints) = NumSubmaps - 1

C7_Witness ==
  /\ GraphAssembled
  /\ pc = "pgo_sweep"
  /\ log = <<>>
  /\ NumSubmaps >= 3
  /\ BagCardinality(graph.constraints) = NumSubmaps - 1

\* C8: every submap's T_WORLD_SUBMAP_INIT has the value it was loaded with.
C8_InitialPoseNeverMutated ==
  \A n \in DOMAIN submaps : submaps[n].T_WORLD_SUBMAP_INIT = LocalMapperPose(n)

C8_Witness ==
  /\ pc = "idle"
  /\ calls = MaxCalls
  /\ stage = "pgo"
  /\ \E n \in DOMAIN submaps :
       /\ SubmapStamp(n) \in DOMAIN summary.submap_alignment
       /\ submaps[n].T_WORLD_SUBMAP # submaps[n].T_WORLD_SUBMAP_INIT

\* C9: a candidate whose refinement failed has no constraint in the query's
\* transaction; every candidate of the query with matchedIndex < queryIndex - 1
\* is handed to refinement whatever happened to the ones before it; and the
\* sweep returns only after the last query index, with success.
C9_FailedRefinementSkipped ==
  /\ \A c \in DOMAIN attempted :
       ~attempted[c] =>
         \A e \in BagToSet(transaction) : e.from # matched_indices[c + 1]
  /\ pc \in {"pgo_candidates", "pgo_optimize", "pgo_update_poses"} =>
       \A c \in 0 .. cand - 1 :
         matched_indices[c + 1] < query_index - 1 => c \in DOMAIN attempted
  /\ pc \in {"pgo_optimize", "pgo_update_poses"} => cand = Len(matched_indices)
  /\ PGOReturned => (ret = "true" /\ query_index >= NumSubmaps - 1)

C9_Witness ==
  /\ pc = "pgo_sweep"
  /\ SweepStepComplete
  /\ \E c1, c2 \in DOMAIN attempted : c1 < c2 /\ ~attempted[c1] /\ attempted[c2]
  /\ BagCardinality(transaction) = 1

\* C10: a candidate search that finds nothing moves the sweep to the next
\* query index, changing neither the graph nor the store nor the result, and
\* RunPoseGraphOptimization returns true whenever it returns.
C10_EmptySearchContinues ==
  /\ [][ ( /\ pc = "pgo_sweep"
           /\ query_index < NumSubmaps - 1
           /\ matched_indices' = <<>> )
         => ( /\ pc' = "pgo_sweep"
              /\ query_index' = query_index + 1
              /\ graph' = graph
              /\ submaps' = submaps
              /\ ret' = ret ) ]_vars
  /\ [](PGOReturned => ret = "true")

C10_Witness ==
  /\ PGOReturned
  /\ ret = "true"
  /\ matched_indices = <<>>
  /\ log = <<"FindRelocCandidates">>
  /\ NumSubmaps >= 4

\* C11: a RefineSubmap call that gets past its output-path check returns true
\* whatever scans failed to register: the loop of RunSubmapRefinement goes on to
\* the next submap, every lidar keyframe of the submap has a summary entry, a
\* keyframe that is not a variable of the local graph keeps its pose, and the
\* stage never returns false.
C11_FailedScanDoesNotAbort ==
  /\ [][ (pc = "refine" /\ i < NumSubmaps /\ pc' # "raised_invalid_path")
           => /\ pc' = "refine"
              /\ i' = i + 1
              /\ ret' = ret
              /\ \A k \in DOMAIN submaps[i].scans :
                   /\ ScanStamp(i, k) \in DOMAIN summary'.submap_refinement
                   /\ ScanStamp(i, k) \notin refine_graph'
                        => submaps'[i].scans[k] = submaps[i].scans[k] ]_vars
  /\ [](stage = "refinement" => ret # "false")

\* submap 2 refined: its first keyframe failed to register and kept its pose,
\* its second keyframe registered and moved, both have a summary entry
C11_Witness ==
  /\ stage = "refinement"
  /\ pc = "refine"
  /\ i = 3
  /\ ScanStamp(2, 1) \notin refine_graph
  /\ ScanStamp(2, 2) \in refine_graph
  /\ submaps[2].scans[1] = LoadedSubmap(2).scans[1]
  /\ submaps[2].scans[2] # LoadedSubmap(2).scans[2]
  /\ {ScanStamp(2, 1), ScanStamp(2, 2)} \subseteq DOMAIN summary.submap_refinement

\* C12: when the matcher has failed on the first pair of the alignment stage
\* (i <= 2: no later pair has been tried, so every Match() so far failed), the
\* stage is already over: RunSubmapAlignment has returned false, the alignment
\* summary is empty and no submap pose has been overwritten.
C12_AllMatchesFailStopsAtFirstPair ==
  (stage = "alignment" /\ match_failed /\ i <= 2)
    => /\ pc = "idle"
       /\ ret = "false"
       /\ summary.submap_alignment = <<>>
       /\ \A n \in DOMAIN submaps :
            submaps[n].T_WORLD_SUBMAP = LoadedSubmap(n).T_WORLD_SUBMAP

\* RunSubmapRefinement has returned true
RefinementDone == stage = "refinement" /\ pc = "idle" /\ ret = "true"

\* the stamps of all lidar keyframes of the store
AllScanStamps ==
  UNION {{ScanStamp(n, k) : k \in DOMAIN submaps[n].scans} : n \in DOMAIN submaps}

\* C13 (as stated): after the refinement stage has run over N submaps, starting
\* from an empty summary, the refinement summary has exactly N entries.
C13_OneEntryPerSubmap ==
  RefinementDone => Cardinality(DOMAIN summary.submap_refinement) = NumSubmaps

\* C13 (amended): after the refinement stage has run, starting from an empty
\* summary, the refinement summary has exactly one entry per lidar keyframe of
\* the store, keyed by the keyframe's stamp, whatever scans failed to register.
C13_OneEntryPerScan ==
  RefinementDone => DOMAIN summary.submap_refinement = AllScanStamps

\* the stage has run over five submaps and left a number of entries that is
\* the number of keyframes and not the number of submaps
C13_Witness ==
  /\ RefinementDone
  /\ NumSubmaps = 5
  /\ Cardinality(DOMAIN summary.submap_refinement) = Cardinality(AllScanStamps)
  /\ Cardinality(AllScanStamps) # NumSubmaps
  /\ \E n \in DOMAIN submaps : \E k \in DOMAIN submaps[n].scans :
       summary.submap_refinement[ScanStamp(n, k)] = RegistrationResult(Identity, Identity)

\* C14: with exactly one submap in the store, RunSubmapAlignment has returned
\* true at once, without calling the matcher, recording a summary entry or
\* touching the pose; RunPoseGraphOptimization goes from the assembled graph
\* (the prior on submap 0, no constraint) straight to its return of true: no
\* candidate search, no candidate, no transaction of the sweep applied, no
\* solve, no pose written back.
C14_SingleSubmapIsTrivial ==
  NumSubmaps = 1
    => /\ stage = "alignment"
            => pc \in {"idle", "saved"} /\ ret = "true" /\ ~match_failed
       /\ stage = "pgo"
            => /\ pc \in {"pgo_sweep", "idle", "saved"}
               /\ pc # "pgo_sweep" => ret = "true"
               /\ log = <<>>
               /\ matched_indices = <<>>
               /\ transaction = EmptyBag
               /\ graph.constraints = EmptyBag
               /\ BagCardinality(graph.priors) = 1
       /\ summary.submap_alignment = <<>>
       /\ submaps[0].T_WORLD_SUBMAP = LoadedSubmap(0).T_WORLD_SUBMAP

\* a store of one submap on which a stage call and then the pose-graph
\* optimization have returned true
C14_Witness ==
  /\ NumSubmaps = 1
  /\ PGOReturned
  /\ ret = "true"
  /\ calls = 2
  /\ query_index = pgo_skip_first_n_submaps

\* the sweep is inside the step of query_index: its candidate loop, its graph
\* update and solve, or its write-back
InSweepStep == pc \in {"pgo_candidates", "pgo_optimize", "pgo_update_poses"}

\* C15 (as stated): with five submaps the sweep reaches query index 4 (its last
\* candidate search is the one of query 4, with ignoreLastN = 5 - 4 + 1), and
\* the candidates refined for query 4 are submap 0 or 1.
C15_SweepReachesQueryFour ==
  NumSubmaps = 5
    => /\ PGOReturned => ignore_last_n_submaps = IgnoreLastNSubmaps(5, 4)
       /\ (InSweepStep /\ query_index = 4)
            => \A c \in DOMAIN attempted : matched_indices[c + 1] \in {0, 1}

\* C15 (amended): with five submaps the last query index of the sweep is 3
\* (submap 4 is never a query); the search of query 3 is passed ignoreLastN =
\* 3, and the candidates refined for query 3 are submap 0 or 1, never 2, 3 or 4.
C15_LastQueryIsThree ==
  (NumSubmaps = 5 /\ GraphAssembled)
    => /\ InSweepStep => query_index <= 3
       /\ (PGOReturned /\ pgo_skip_first_n_submaps <= 3)
            => query_index = 4 /\ ignore_last_n_submaps = IgnoreLastNSubmaps(5, 3)
       /\ (InSweepStep /\ query_index = 3)
            => /\ ignore_last_n_submaps = 3
               /\ \A c \in DOMAIN attempted : matched_indices[c + 1] \in {0, 1}

\* query 3 of five submaps: the search returned submaps 3 and 0, submap 3 was
\* skipped and submap 0 was refined
C15_Witness ==
  /\ NumSubmaps = 5
  /\ pc = "pgo_optimize"
  /\ query_index = 3
  /\ matched_indices = <<3, 0>>
  /\ DOMAIN attempted = {1}
  /\ ignore_last_n_submaps = 3

\* a configuration error has been raised
ConfigurationError ==
  pc \in {"raised_load_json", "raised_setup", "raised_invalid_path"}

\* the constructor has returned: the object exists
ObjectConstructed ==
  pc \notin {"unconstructed", "raised_load_json", "raised_setup"}

\* the configuration names a matcher type Setup knows and, when it names a
\* file, the file is readable and carries every required key
ConfigurationComplete(c) ==
  /\ c.matcher_type \in {"LOAM", "ICP", "GICP", "NDT"}
  /\ c.config_path # ""
       => /\ c.readable
          /\ DOMAIN c.J = {"loop_closure", "submap_refinement", "submap_alignment"}
          /\ DOMAIN c.J["loop_closure"] =
               {"candidate_search_config", "refinement_config",
                "local_mapper_covariance", "loop_closure_covariance"}
          /\ DOMAIN c.J["submap_refinement"] =
               {"scan_registration_config", "matcher_config"}
          /\ DOMAIN c.J["submap_alignment"] = {"matcher_config"}

\* no stage has changed the store or the summary
StoreUntouched ==
  /\ \A n \in DOMAIN submaps : submaps[n] = LoadedSubmap(n)
  /\ summary = [submap_refinement |-> <<>>, submap_alignment |-> <<>>]

OptionalPaths ==
  { <<"loop_closure", "candidate_search_config">>,
    <<"loop_closure", "refinement_config">>,
    <<"submap_refinement", "scan_registration_config">>,
    <<"submap_refinement", "matcher_config">>,
    <<"submap_alignment", "matcher_config">> }

RequiredKeys(section) ==
  CASE section = "loop_closure" ->
         {"candidate_search_config", "refinement_config",
          "local_mapper_covariance", "loop_closure_covariance"}
    [] section = "submap_refinement" -> {"scan_registration_config", "matcher_config"}
    [] section = "submap_alignment" -> {"matcher_config"}

\* the configuration is a readable file that carries every section and every
\* key, except possibly the given one
CompleteExcept(c, section, key) ==
  /\ c.config_path # ""
  /\ c.readable
  /\ DOMAIN c.J = {"loop_closure", "submap_refinement", "submap_alignment"}
  /\ \A s \in DOMAIN c.J :
       (RequiredKeys(s) \ (IF s = section THEN {key} ELSE {})) \subseteq DOMAIN c.J[s]

\* LoadJson has run
JsonLoaded == pc # "unconstructed"

\* C17 (as stated): an optional path that is missing or empty does not make
\* LoadJson fail, and the parameter keeps its default value.
C17_MissingOrEmptyKeepsDefault ==
  JsonLoaded =>
    \A op \in OptionalPaths :
      ( /\ CompleteExcept(config, op[1], op[2])
        /\ \/ op[2] \notin DOMAIN config.J[op[1]]
           \/ config.J[op[1]][op[2]] = "" )
        => /\ pc # "raised_load_json"
           /\ params[op[1]][op[2]] = DefaultParams[op[1]][op[2]]

\* C17 (amended): an optional path that is present and empty does not make
\* LoadJson fail, and the parameter keeps its default value (a non-empty one
\* replaces it by the path under the configuration root); an optional path
\* whose key is missing makes LoadJson raise.
C17_EmptyKeepsDefaultMissingRaises ==
  JsonLoaded =>
    \A op \in OptionalPaths :
      CompleteExcept(config, op[1], op[2])
        => IF op[2] \notin DOMAIN config.J[op[1]]
             THEN pc = "raised_load_json"
             ELSE /\ pc # "raised_load_json"
                  /\ params[op[1]][op[2]] =
                       IF config.J[op[1]][op[2]] = ""
                         THEN DefaultParams[op[1]][op[2]]
                         ELSE <<"beam_slam/config", config.J[op[1]][op[2]]>>

\* a file whose candidate_search_config is empty and whose other paths are
\* given has been loaded: the first parameter kept its default, another did not
C17_Witness ==
  /\ pc = "idle"
  /\ config.config_path # ""
  /\ config.J["loop_closure"]["candidate_search_config"] = ""
  /\ config.J["submap_alignment"]["matcher_config"] = "rel.json"
  /\ params.loop_closure.candidate_search_config =
       DefaultParams.loop_closure.candidate_search_config
  /\ params.submap_alignment.matcher_config # DefaultParams.submap_alignment.matcher_config

\* the array written for the map m holds exactly m's entries
SavedArrayMatches(array, m) ==
  /\ Len(array) = Cardinality(DOMAIN m)
  /\ \A stamp \in DOMAIN m :
       \E j \in DOMAIN array :
         /\ array[j].sec = stamp[1]
         /\ array[j].nsec = stamp[2]
         /\ array[j].dt_mm = m[stamp]
         /\ array[j].dR_deg = m[stamp]

\* C18: the step in which a stage function raises or returns false leaves the
\* summary as it was, and a summary.json that SaveResults writes afterwards
\* holds exactly the entries of the summary.
C18_FailureKeepsSummary ==
  /\ [][ ( \/ pc' \in {"raised", "raised_invalid_path"}
           \/ ret' = "false" /\ ret # "false" )
         => summary' = summary ]_vars
  /\ [](summary_json.written
          => /\ SavedArrayMatches(summary_json.submap_refinement,
                                  summary.submap_refinement)
             /\ SavedArrayMatches(summary_json.submap_alignment,
                                  summary.submap_alignment))

\* refinement recorded an entry, RunSubmapAlignment then raised on its output
\* path, and SaveResults wrote the refinement entry
C18_Witness ==
  /\ pc = "saved"
  /\ stage = "alignment"
  /\ ret = "none"
  /\ output_path_invalid
  /\ summary_json.written
  /\ Len(summary_json.submap_refinement) = 1
  /\ summary_json.submap_refinement[1].sec = 1
  /\ summary.submap_alignment = <<>>

\* C19: the sweep starts at pgo_skip_first_n_submaps; a candidate search is made
\* only for a query index between it and N - 2, with ignoreLastN = N -
\* queryIndex + 1; the query index stays during the step of a query and grows
\* by one when the step ends (at once when the search found nothing, after the
\* write-back otherwise); the stage returns only once the query index has
\* passed N - 2.  So the query indices skipFirstN .. N - 2 are visited in
\* increasing order, each once.
C19_SweepVisitsEachQueryOnce ==
  [][ /\ (pc = "idle" /\ pc' = "pgo_sweep")
        => query_index' = pgo_skip_first_n_submaps
      /\ (pc = "pgo_sweep" /\ pc' # "idle")
        => /\ pgo_skip_first_n_submaps <= query_index
           /\ query_index <= NumSubmaps - 2
           /\ ignore_last_n_submaps' = NumSubmaps - query_index + 1
           /\ log' = <<"FindRelocCandidates">>
           /\ \/ pc' = "pgo_sweep" /\ query_index' = query_index + 1
              \/ pc' = "pgo_candidates" /\ query_index' = query_index
      /\ pc \in {"pgo_candidates", "pgo_optimize"}
        => query_index' = query_index /\ pc' # "pgo_sweep"
      /\ pc = "pgo_update_poses"
        => query_index' = query_index + 1 /\ pc' = "pgo_sweep"
      /\ (pc = "pgo_sweep" /\ pc' = "idle")
        => query_index = (IF pgo_skip_first_n_submaps > NumSubmaps - 1
                            THEN pgo_skip_first_n_submaps ELSE NumSubmaps - 1)
    ]_vars

\* five submaps, skipFirstN = 1: the sweep has visited the queries 1, 2 and 3,
\* the last with ignoreLastN = 3, and is about to return
C19_Witness ==
  /\ stage = "pgo"
  /\ pc = "pgo_sweep"
  /\ NumSubmaps = 5
  /\ pgo_skip_first_n_submaps = 1
  /\ query_index = 4
  /\ ignore_last_n_submaps = 3
  /\ log[1] = "FindRelocCandidates"

\* C20: a step that changes the pose of a scan is a step of the refinement
\* stage, and a step that changes the T_WORLD_SUBMAP of a submap is a step of
\* the alignment stage or of the pose-graph optimization.
C20_StagesChangeOnlyTheirPoses ==
  [][ /\ (\E n \in DOMAIN submaps : submaps'[n].scans # submaps[n].scans)
        => stage = "refinement" /\ pc = "refine"
      /\ (\E n \in DOMAIN submaps :
            submaps'[n].T_WORLD_SUBMAP # submaps[n].T_WORLD_SUBMAP)
        => stage \in {"alignment", "pgo"} /\ pc \in {"align", "pgo_update_poses"}
    ]_vars

\* refinement has moved the scan of submap 1, and alignment has then moved
\* submap 1 and left that scan where refinement put it
C20_Witness ==
  /\ stage = "alignment"
  /\ pc = "idle"
  /\ calls = 2
  /\ NumSubmaps = 2
  /\ submaps[1].scans[1] # LoadedSubmap(1).scans[1]
  /\ submaps[1].T_WORLD_SUBMAP # LoadedSubmap(1).T_WORLD_SUBMAP
  /\ ScanStamp(1, 1) \in refine_graph

\* C21: an AlignSubmaps call that gets past its output-path check sets the
\* target's T_WORLD_SUBMAP to the reference's current T_WORLD_SUBMAP composed
\* with a transform the engine may return for the seed
\* inverse(reference T_WORLD_SUBMAP_INIT) * target T_WORLD_SUBMAP_INIT; when the
\* engine returned the seed itself and the reference's current pose is its
\* initial pose, the target's new pose is the target's initial pose.
C21_SeedFromInitialComposeWithCurrent ==
  [][ (pc = "align" /\ i < NumSubmaps /\ pc' # "raised_invalid_path")
        => LET ref  == submaps[i - 1]
               tgt  == submaps[i]
               seed == Compose(InvertTransform(ref.T_WORLD_SUBMAP_INIT),
                               tgt.T_WORLD_SUBMAP_INIT)
           IN  /\ \E d \in {Identity, <<1, 1>>} :
                    submaps'[i].T_WORLD_SUBMAP =
                      Compose(ref.T_WORLD_SUBMAP, Compose(seed, d))
               /\ ( /\ ref.T_WORLD_SUBMAP = ref.T_WORLD_SUBMAP_INIT
                    /\ submaps'[i].T_WORLD_SUBMAP = Compose(ref.T_WORLD_SUBMAP, seed) )
                    => submaps'[i].T_WORLD_SUBMAP = tgt.T_WORLD_SUBMAP_INIT
    ]_vars

\* pair (0, 1): the engine returned the seed and submap 1 is at its initial
\* pose; pair (1, 2): the engine refined the seed and submap 2 has moved
C21_Witness ==
  /\ stage = "alignment"
  /\ pc = "align"
  /\ i = 3
  /\ submaps[1].T_WORLD_SUBMAP = submaps[1].T_WORLD_SUBMAP_INIT
  /\ submaps[2].T_WORLD_SUBMAP # submaps[2].T_WORLD_SUBMAP_INIT
  /\ {SubmapStamp(1), SubmapStamp(2)} \subseteq DOMAIN summary.submap_alignment

\* C22: in the graph of the pose-graph optimization and in the transaction of
\* the running sweep step, every constraint between consecutive submaps (the
\* chain) carries params_.loop_closure.local_mapper_covariance, every other
\* constraint (a loop closure) carries params_.loop_closure.loop_closure_covariance,
\* and the only prior is the one on submap 0, with pose_prior_noise_.
C22_ConstraintCovariances ==
  GraphAssembled
    => /\ \A e \in BagToSet(graph.constraints) \cup BagToSet(transaction) :
            e.covariance = IF e.to = e.from + 1
                             THEN params.loop_closure.local_mapper_covariance
                             ELSE params.loop_closure.loop_closure_covariance
       /\ \A n \in 1 .. NumSubmaps - 1 : ConstraintsBetween(graph, n - 1, n) = 1
       /\ \A p \in BagToSet(graph.priors) :
            p.submap = 0 /\ p.noise = "pose_prior_noise_"
       /\ BagCardinality(graph.priors) = 1

\* a loop closure between submaps 0 and 2 is in the graph next to the chain,
\* and the two covariances differ
C22_Witness ==
  /\ GraphAssembled
  /\ pc = "pgo_optimize"
  /\ ConstraintsBetween(graph, 0, 2) = 1
  /\ ConstraintsBetween(graph, 0, 1) = 1
  /\ params.loop_closure.local_mapper_covariance
       # params.loop_closure.loop_closure_covariance

\* the outcomes scan registration and the local solve may have for a submap
SubmapOutcomes(submap) ==
  { o \in [DOMAIN submap.scans ->
             UNION {ScanOutcomes(submap.scans[k]) : k \in DOMAIN submap.scans}] :
      \A k \in DOMAIN o : o[k] \in ScanOutcomes(submap.scans[k]) }

\* the store and the refinement summary after RefineSubmap has been called on
\* the submaps of `order`, one after the other, with the outcomes O
RECURSIVE RefineInOrder(_, _, _, _)
RefineInOrder(order, subs, refine_summary, O) ==
  IF order = <<>> THEN [submaps |-> subs, summary |-> refine_summary]
  ELSE LET n == Head(order)
           r == RefineSubmap(n, subs[n], O[n], refine_summary)
       IN  RefineInOrder(Tail(order), [subs EXCEPT ![n] = r.submap], r.summary, O)

C24_SummariesAppendOnly ==
  [][ /\ \A stamp \in DOMAIN summary.submap_refinement :
           /\ stamp \in DOMAIN summary'.submap_refinement
           /\ summary'.submap_refinement[stamp] = summary.submap_refinement[stamp]
      /\ \A stamp \in DOMAIN summary.submap_alignment :
           /\ stamp \in DOMAIN summary'.submap_alignment
           /\ summary'.submap_alignment[stamp] = summary.submap_alignment[stamp]
    ]_vars

\* the refinement stage has run twice: the first run left the scan of submap 1
\* in place and recorded a zero change, the second run moved the scan and its
\* result was discarded
C24_Witness ==
  /\ RefinementDone
  /\ calls = 2
  /\ NumSubmaps = 2
  /\ submaps[1].scans[1] # LoadedSubmap(1).scans[1]
  /\ summary.submap_refinement[ScanStamp(1, 1)] = RegistrationResult(Identity, Identity)

\* the loop-closure constraints of the graph and of the transaction of the
\* running sweep step
LoopClosureConstraints ==
  {e \in BagToSet(graph.constraints) \cup BagToSet(transaction) :
     e.source = "GlobalMap::RunLoopClosure"}

\* C25: every loop-closure constraint goes from a matched index m to a query
\* index q with skipFirstN <= q <= N - 2 and 0 <= m <= q - 2; the last submap
\* is an endpoint of none, and a store of fewer than 4 submaps has none.
C25_LoopClosureIndexBounds ==
  GraphAssembled
    => /\ \A e \in LoopClosureConstraints :
            /\ pgo_skip_first_n_submaps <= e.to
            /\ e.to <= NumSubmaps - 2
            /\ 0 <= e.from
            /\ e.from <= e.to - 2
            /\ NumSubmaps - 1 \notin {e.from, e.to}
       /\ NumSubmaps < 4 => LoopClosureConstraints = {}

\* five submaps: the loop closures (0, 2) and (1, 3), the widest and the last
\* the sweep can add, are in the graph, and the search of query 3 had also
\* returned its neighbour 2
C25_Witness ==
  /\ GraphAssembled
  /\ NumSubmaps = 5
  /\ ConstraintsBetween(graph, 0, 2) = 1
  /\ ConstraintsBetween(graph, 1, 3) = 1
  /\ query_index = 3
  /\ matched_indices = <<2, 1>>

\* C26: a sweep step whose search found nothing leaves the graph and the
\* submaps as they were and goes to the next query index without an update, a
\* solve or a write-back; a step whose search found something enters the
\* candidate loop and then always updates the graph with the transaction (empty
\* or not), solves, and writes the graph's poses back.  In a sweep of a single
\* query whose search found nothing, the stage returns with the graph as
\* assembled and every T_WORLD_SUBMAP as at entry.
C26_EmptySearchChangesNothing ==
  /\ [][ /\ (pc = "pgo_sweep" /\ pc' = "pgo_sweep")
           => /\ matched_indices' = <<>>
              /\ graph' = graph
              /\ submaps' = submaps
              /\ log' = <<"FindRelocCandidates">>
         /\ (pc = "pgo_sweep" /\ pc' = "pgo_candidates")
           => matched_indices' # <<>> /\ graph' = graph /\ submaps' = submaps
         /\ (pc = "pgo_candidates" /\ pc' # "pgo_candidates")
           => /\ pc' = "pgo_optimize"
              /\ log' = <<"FindRelocCandidates", "update">>
              /\ graph'.constraints = graph.constraints (+) transaction
         /\ pc = "pgo_optimize"
           => pc' = "pgo_update_poses" /\ Len(log') = 3 /\ IsOptimize(log'[3])
         /\ pc = "pgo_update_poses"
           => /\ log' = Append(log, "UpdateSubmapPoses")
              /\ \A n \in DOMAIN submaps : submaps'[n].T_WORLD_SUBMAP = graph.values[n]
       ]_vars
  /\ []( ( /\ PGOReturned
           /\ pgo_skip_first_n_submaps >= NumSubmaps - 2
           /\ matched_indices = <<>> )
         => /\ \A n \in DOMAIN submaps :
                 submaps[n].T_WORLD_SUBMAP = LoadedSubmap(n).T_WORLD_SUBMAP
            /\ \A k \in DOMAIN log : ~IsOptimize(log[k])
            /\ \A n \in DOMAIN submaps : graph.values[n] = LoadedSubmap(n).T_WORLD_SUBMAP
            /\ LoopClosureConstraints = {} )

\* four submaps, skipFirstN = 2: the only query found nothing and the stage
\* has returned without a solve, the poses as loaded
C26_Witness ==
  /\ PGOReturned
  /\ NumSubmaps = 4
  /\ pgo_skip_first_n_submaps = 2
  /\ query_index = 3
  /\ matched_indices = <<>>
  /\ log = <<"FindRelocCandidates">>
  /\ \A n \in DOMAIN submaps :
       submaps[n].T_WORLD_SUBMAP = LoadedSubmap(n).T_WORLD_SUBMAP

\* C27: RunPoseGraphOptimization never returns false.  With a store of at
\* least one and no more than pgo_skip_first_n_submaps_ submaps the size check
\* only logs an error: the graph gets the prior and the chain constraints, the
\* sweep makes no search, no update and no solve, the poses stay as they were
\* and the stage returns true.
C27_TooFewSubmapsStillReturnsTrue ==
  /\ PGOReturned => ret = "true"
  /\ (GraphAssembled /\ NumSubmaps <= pgo_skip_first_n_submaps)
       => /\ CheckNumSubmaps(NumSubmaps, pgo_skip_first_n_submaps) = "BEAM_ERROR"
          /\ pc \in {"pgo_sweep", "idle"}
          /\ graph = AssembleGraph(submaps).graph
          /\ BagCardinality(graph.priors) = 1
          /\ BagCardinality(graph.constraints) = NumSubmaps - 1
          /\ \A n \in 1 .. NumSubmaps - 1 : ConstraintsBetween(graph, n - 1, n) = 1
          /\ query_index = pgo_skip_first_n_submaps
          /\ matched_indices = <<>>
          /\ log = <<>>
          /\ \A n \in DOMAIN submaps :
               submaps[n].T_WORLD_SUBMAP = LoadedSubmap(n).T_WORLD_SUBMAP
          /\ pc = "idle" => ret = "true"

\* two submaps, skipFirstN = 2: the stage has returned true
C27_Witness ==
  /\ PGOReturned
  /\ NumSubmaps = 2
  /\ pgo_skip_first_n_submaps = 2
  /\ ret = "true"
  /\ ConstraintsBetween(graph, 0, 1) = 1

\* C28: when the alignment stage, started with an empty alignment summary on
\* N >= 2 submaps, has returned true, the summary's keys are exactly the stamps
\* of submaps 1 .. N-1 (N-1 entries, none for submap 0), and the entry of target
\* n compares the pose the target had before its AlignSubmaps call with the
\* pose it has after it; every step of the stage writes the entry of its own
\* target from the target's pose before and after the step.
C28_OneAlignmentEntryPerTarget ==
  /\ []( ( /\ stage = "alignment" /\ pc = "idle" /\ ret = "true"
           /\ NumSubmaps >= 2 )
         => /\ DOMAIN summary.submap_alignment
                 = { SubmapStamp(n) : n \in 1 .. NumSubmaps - 1 }
            /\ Cardinality(DOMAIN summary.submap_alignment) = NumSubmaps - 1
            /\ SubmapStamp(0) \notin DOMAIN summary.submap_alignment
            /\ \A n \in 1 .. NumSubmaps - 1 :
                 summary.submap_alignment[SubmapStamp(n)]
                   = RegistrationResult(LoadedSubmap(n).T_WORLD_SUBMAP,
                                        submaps[n].T_WORLD_SUBMAP) )
  /\ [][ (pc = "align" /\ pc' = "align")
           => /\ DOMAIN summary'.submap_alignment
                   = DOMAIN summary.submap_alignment \cup {SubmapStamp(i)}
              /\ SubmapStamp(i) \notin DOMAIN summary.submap_alignment
              /\ summary'.submap_alignment[SubmapStamp(i)]
                   = RegistrationResult(submaps[i].T_WORLD_SUBMAP,
                                        submaps'[i].T_WORLD_SUBMAP)
       ]_vars

\* five submaps aligned: four entries, one of them of a target that moved
C28_Witness ==
  /\ stage = "alignment" /\ pc = "idle" /\ ret = "true"
  /\ NumSubmaps = 5
  /\ Cardinality(DOMAIN summary.submap_alignment) = 4
  /\ submaps[2].T_WORLD_SUBMAP # LoadedSubmap(2).T_WORLD_SUBMAP
  /\ summary.submap_alignment[SubmapStamp(2)]
       # RegistrationResult(Identity, Identity)

\* the stores a run of the alignment loop from pair n may leave, each with the
\* inputs and the answer of the matcher for every pair; a matcher that is a
\* function of its inputs answers a pair as it answered it in the run `first`
\* when the pair's inputs are those of that run
RECURSIVE AlignRuns(_, _, _, _)
AlignRuns(subs, n, first, answered) ==
  IF ~(n < Cardinality(DOMAIN subs))
    THEN {[submaps |-> subs, matcher |-> answered]}
    ELSE LET input   == AlignInputs(subs[n - 1], subs[n])
             answers == IF n \in DOMAIN first /\ first[n].input = input
                          THEN {first[n].answer}
                          ELSE MatcherResults(input.seed)
         IN  UNION { AlignRuns([subs EXCEPT ![n] = AlignSubmaps(subs[n - 1], subs[n],
                                                                 m, <<>>).tgt],
                               n + 1, first,
                               Append(answered, [input |-> input, answer |-> m])) :
                     m \in answers }

\* C29: from any store the stage may be called on, a run of the alignment loop
\* followed at once by a second run, the matcher answering equal inputs
\* equally, ends with every T_WORLD_SUBMAP as the first run left it: the inputs
\* of every pair are the same in both runs, and neither run writes submap 0.
C29_AlignmentIdempotentOnPoses ==
  pc = "idle"
    => \A r1 \in AlignRuns(submaps, 1, <<>>, <<>>) :
         \A r2 \in AlignRuns(r1.submaps, 1, r1.matcher, <<>>) :
           /\ \A n \in DOMAIN submaps :
                r2.submaps[n].T_WORLD_SUBMAP = r1.submaps[n].T_WORLD_SUBMAP
           /\ \A n \in DOMAIN r1.matcher : r2.matcher[n].input = r1.matcher[n].input
           /\ NumSubmaps > 0 => (r1.submaps[0] = submaps[0] /\ r2.submaps[0] = submaps[0])

\* two alignment calls have been made on two submaps, nothing else; the first
\* moved submap 1 and the poses are those of two runs with one matcher
C29_Witness ==
  /\ calls = 2 /\ stage = "alignment" /\ pc = "idle" /\ ret = "true"
  /\ NumSubmaps = 2
  /\ summary.submap_refinement = <<>>
  /\ graph = EmptyGraph
  /\ submaps[1].T_WORLD_SUBMAP # LoadedSubmap(1).T_WORLD_SUBMAP
  /\ \E r1 \in AlignRuns([s \in 0 .. 1 |-> LoadedSubmap(s)], 1, <<>>, <<>>) :
       /\ r1.submaps[1].T_WORLD_SUBMAP # LoadedSubmap(1).T_WORLD_SUBMAP
       /\ \E r2 \in AlignRuns(r1.submaps, 1, r1.matcher, <<>>) : r2.submaps = submaps

\* C30: every iteration of the loop of RunSubmapRefinement and of the loop of
\* RunSubmapAlignment goes from index i to index i + 1, so that no index is
\* visited twice and the loop ends after the last index of the store; no
\* iteration of RunSubmapAlignment raises for an index outside the store.
C30_LoopsVisitEachIndexOnce ==
  [][ /\ (pc = "refine" /\ pc' = "refine") => i' = i + 1
      /\ (pc = "align" /\ pc' = "align") => i' = i + 1
      /\ pc = "align" => pc' # "raised_out_of_range"
    ]_vars

====
